---- MODULE Spec2Model ----
(***************************************************************************)
(* Model of the "datamanage" commands, importer/exporter and current-user  *)
(* REST API of the Superset fork.                                          *)
(*                                                                         *)
(*   superset/datamanage/commands/delete.py                                *)
(*   superset/datamanage/commands/update.py                                *)
(*   superset/datamanage/commands/export.py                                *)
(*   superset/datamanage/commands/importers/v1/utils.py                    *)
(*   superset/views/users/api.py                                           *)
(*                                                                         *)
(* The metadata database is modelled by two variables: `committed` is what *)
(* the database holds, `session` is what the SQLAlchemy session shows      *)
(* (committed rows plus pending changes).                                  *)
(***************************************************************************)
EXTENDS Integers, Sequences, FiniteSets, TLC

VARIABLES
    session,      \* datasets as seen through db.session (pending changes included)
    committed,    \* datasets stored in the metadata database
    last,         \* what the last command or request did and raised / returned
    users,        \* the ids of the rows of the user table
    config,       \* the caller's dict: an exported payload, an import config
    tables        \* the backing tables: what each table name holds

vars == <<session, committed, last, users, config, tables>>

(* Bounds and small input domains                                          *)

MaxDatasets == 2      \* dataset ids are 1..MaxDatasets
MaxUsers == 3         \* the user table of the REST API holds ids out of 1..MaxUsers
MaxItems == 4         \* _get_duplicates is run on lists of at most MaxItems items

DatasetIds == 1..MaxDatasets
DatabaseIds == {1, 2}
TableNames == {"t1", "t2"}
ColumnNames == {"a", "b"}
MetricNames == {"m"}
ItemIds == {1}             \* column and metric ids within a dataset
UserIds == {1, 2}          \* users known to the security manager
AdminIds == {1}            \* users for which is_admin() holds
OwnerIdInputs == {2, 9}    \* submitted owner ids: 9 is the id of no user

(* Python values                                                           *)

None == [t |-> "None"]
PyInt(n) == [t |-> "int", n |-> n]
PyStr(s) == [t |-> "str", s |-> s]
PyModel(model) == [t |-> "SqlaTable", id |-> model.id]

\* a != b on Python values: values of different types are never equal
PyNe(a, b) == a # b

EmptyDict == << >>

\* no backing table exists
NoTables == [n \in TableNames |-> "missing"]
Range(s) == {s[i] : i \in DOMAIN s}

Min(S) == CHOOSE x \in S : \A y \in S : x <= y

(* The metadata store: a set of dataset rows                               *)

Exists(store, id) == \E d \in store : d.id = id

\* DatamanageDAO.find_by_id: the row with that id (callers test Exists first)
find_by_id(store, id) == CHOOSE d \in store : d.id = id

Without(store, id) == {d \in store : d.id # id}

\* security_manager.raise_for_ownership: TRUE when it raises
\* SupersetSecurityException (the user is no admin and no owner of the model)
raise_for_ownership(user, model) ==
    ~(user \in AdminIds \/ user \in Range(model.owners))

(* Command results                                                         *)

Result(op, model_id, user, outcome) ==
    [op |-> op, model_id |-> model_id, user |-> user, outcome |-> outcome,
     exceptions |-> << >>, dao |-> FALSE, dao_failed |-> FALSE,
     returned |-> 0, database |-> 0,
     commits |-> 0, rollbacks |-> 0]

NoResult == Result("none", 0, 0, "none")

(* delete.py                                                               *)

\* a mutant of DeleteDatamanageCommand_validate: the ownership check is lost
DeleteValidateNoOwnership(store, model_id, user) ==
    IF ~Exists(store, model_id) THEN "DatamanageNotFoundError" ELSE "ok"

\* DeleteDatamanageCommand.validate: the exception it raises, or "ok"
DeleteDatamanageCommand_validate(store, model_id, user) ==
    IF ~Exists(store, model_id)
    THEN "DatamanageNotFoundError"
    ELSE IF raise_for_ownership(user, find_by_id(store, model_id))
         THEN "DatamanageForbiddenError"
         ELSE "ok"

\* DatamanageDAO.delete(model, commit=False): db.session.delete(model); the
\* row is gone from the session's view, also when the DAO then raises
\* DAODeleteFailedError
DatamanageDAO_delete(sess, model) == Without(sess, model.id)

DeleteFailures == {"none", "dao", "commit"}

\* a mutant of db_session_rollback: the pending changes stay in the session
RollbackForgotten(sess, comm) == sess

\* db.session.rollback(): the session shows the committed rows again
db_session_rollback(sess, comm) == comm

\* DeleteDatamanageCommand.run.  fail says which call raises: "dao" is
\* DatamanageDAO.delete raising DAODeleteFailedError, "commit" is
\* db.session.commit() raising SQLAlchemyError.
DeleteDatamanageCommand_run(sess, comm, model_id, user, fail) ==
    LET v == DeleteDatamanageCommand_validate(sess, model_id, user)
    IN IF v # "ok"
       THEN \* validate raised: nothing else runs
            [session |-> sess, committed |-> comm,
             last |-> Result("delete", model_id, user, v)]
       ELSE LET deleted == DatamanageDAO_delete(sess, find_by_id(sess, model_id))
            IN IF fail = "none"
               THEN \* db.session.commit()
                    [session |-> deleted, committed |-> deleted,
                     last |-> [Result("delete", model_id, user, "ok") EXCEPT
                                 !.dao = TRUE, !.commits = 1,
                                 !.returned = model_id]]
               ELSE \* db.session.rollback(); raise DatamanageDeleteFailedError
                    [session |-> db_session_rollback(deleted, comm),
                     committed |-> comm,
                     last |-> [Result("delete", model_id, user,
                                      "DatamanageDeleteFailedError") EXCEPT
                                 !.dao = TRUE, !.dao_failed = TRUE,
                                 !.rollbacks = 1]]

(* update.py                                                               *)

\* dict.get(key) is not None
Has(d, key) == key \in DOMAIN d

\* the elements of a set of integers in increasing order
RECURSIVE SortedSeq(_)
SortedSeq(S) ==
    IF S = {} THEN << >> ELSE <<Min(S)>> \o SortedSeq(S \ {Min(S)})

\* a mutant of _get_duplicates: a name counts from its third occurrence
DuplicatesFromThree(data, key) ==
    LET count(i) == Cardinality({j \in DOMAIN data : data[j][key] = data[i][key]})
        first(i) == \A j \in 1..(i - 1) : data[j][key] # data[i][key]
        idx == SortedSeq({i \in DOMAIN data : first(i) /\ count(i) > 2})
    IN [n \in DOMAIN idx |-> data[idx[n]][key]]

\* UpdateDatamanageCommand._get_duplicates: Counter keeps the keys in the
\* order of their first occurrence; those counted more than once are listed
_get_duplicates(data, key) ==
    LET count(i) == Cardinality({j \in DOMAIN data : data[j][key] = data[i][key]})
        first(i) == \A j \in 1..(i - 1) : data[j][key] # data[i][key]
        idx == SortedSeq({i \in DOMAIN data : first(i) /\ count(i) > 1})
    IN [n \in DOMAIN idx |-> data[idx[n]][key]]

\* DatamanageDAO.validate_update_uniqueness: no other dataset of that
\* database carries the name (name is a Python value: None matches no row)
validate_update_uniqueness(store, database_id, model_id, name) ==
    ~\E d \in store : /\ PyStr(d.table_name) = name
                      /\ d.database_id = database_id
                      /\ d.id # model_id

\* DatamanageDAO.validate_columns_exist / validate_metrics_exist: every
\* submitted id is the id of a column (metric) of the dataset
validate_columns_exist(model, ids) ==
    \A i \in Range(ids) : \E c \in model.columns : c.id = i

validate_metrics_exist(model, ids) ==
    \A i \in Range(ids) : \E c \in model.metrics : c.id = i

\* DatamanageDAO.validate_columns_uniqueness / validate_metrics_uniqueness:
\* none of the names is the name of a column (metric) of the dataset
validate_columns_uniqueness(model, names) ==
    ~\E c \in model.columns : c.column_name \in Range(names)

validate_metrics_uniqueness(model, names) ==
    ~\E c \in model.metrics : c.metric_name \in Range(names)

\* the ids / the names of the items without id, in list order
IdsOf(items) ==
    LET idx == SortedSeq({i \in DOMAIN items : Has(items[i], "id")})
    IN [n \in DOMAIN idx |-> items[idx[n]].id]

NewNamesOf(items, key) ==
    LET idx == SortedSeq({i \in DOMAIN items : ~Has(items[i], "id")})
    IN [n \in DOMAIN idx |-> items[idx[n]][key]]

\* a mutant of _validate_columns: the new names are checked even with
\* override_columns
ValidateColumnsIgnoringOverride(model, columns, override_columns) ==
    IF _get_duplicates(columns, "column_name") # << >>
    THEN <<"DatamanageColumnsDuplicateValidationError">>
    ELSE (IF ~validate_columns_exist(model, IdsOf(columns))
          THEN <<"DatamanageColumnNotFoundValidationError">> ELSE << >>)
         \o
         (IF ~validate_columns_uniqueness(model,
                                         NewNamesOf(columns, "column_name"))
          THEN <<"DatamanageColumnsExistsValidationError">> ELSE << >>)

\* UpdateDatamanageCommand._validate_columns: the exceptions it appends
_validate_columns(model, columns, override_columns) ==
    IF _get_duplicates(columns, "column_name") # << >>
    THEN <<"DatamanageColumnsDuplicateValidationError">>
    ELSE (IF ~validate_columns_exist(model, IdsOf(columns))
          THEN <<"DatamanageColumnNotFoundValidationError">> ELSE << >>)
         \o
         (IF ~override_columns
             /\ ~validate_columns_uniqueness(model,
                                             NewNamesOf(columns, "column_name"))
          THEN <<"DatamanageColumnsExistsValidationError">> ELSE << >>)

\* a mutant of _validate_metrics: the metrics are not validated
ValidateMetricsSkipped(model, metrics) == << >>

\* UpdateDatamanageCommand._validate_metrics: the exceptions it appends
_validate_metrics(model, metrics) ==
    IF _get_duplicates(metrics, "metric_name") # << >>
    THEN <<"DatamanageMetricsDuplicateValidationError">>
    ELSE (IF ~validate_metrics_exist(model, IdsOf(metrics))
          THEN <<"DatamanageMetricsNotFoundValidationError">> ELSE << >>)
         \o
         (IF ~validate_metrics_uniqueness(model,
                                          NewNamesOf(metrics, "metric_name"))
          THEN <<"DatamanageMetricsExistsValidationError">> ELSE << >>)

\* UpdateMixin.populate_owners(owner_ids): the users with these ids; raises
\* a ValidationError when an id is the id of no user
populate_owners(owner_ids) ==
    IF \E i \in Range(owner_ids) : i \notin UserIds
    THEN [raised |-> TRUE, owners |-> << >>]
    ELSE [raised |-> FALSE, owners |-> owner_ids]

\* update.py line 96: database_id and database_id != self._model
\* (the right-hand side is the SqlaTable object, not its database_id)
DatabaseChanged(properties, model) ==
    /\ Has(properties, "database")
    /\ properties.database # 0
    /\ PyNe(PyInt(properties.database), PyModel(model))

\* a mutant of TableNameTaken: the uniqueness check is lost
TableNameNeverTaken(store, model, model_id, properties) == FALSE

\* update.py lines 89-93: not validate_update_uniqueness(database_id of the
\* model, model id, properties.get("table_name"))
TableNameTaken(store, model, model_id, properties) ==
    ~validate_update_uniqueness(
        store, model.database_id, model_id,
        IF Has(properties, "table_name")
        THEN PyStr(properties.table_name) ELSE None)

\* UpdateDatamanageCommand.validate: the exception it raises (or "ok"), the
\* validation errors collected, and the properties with the owners populated
UpdateDatamanageCommand_validate(store, model_id, properties, user) ==
    IF ~Exists(store, model_id)
    THEN [outcome |-> "DatamanageNotFoundError", exceptions |-> << >>,
          properties |-> properties]
    ELSE
    LET model == find_by_id(store, model_id) IN
    IF raise_for_ownership(user, model)
    THEN [outcome |-> "DatamanageForbiddenError", exceptions |-> << >>,
          properties |-> properties]
    ELSE
    LET owners == populate_owners(IF Has(properties, "owners")
                                  THEN properties.owners ELSE << >>)
        populated == IF owners.raised THEN properties
                     ELSE [k \in DOMAIN properties \cup {"owners"} |->
                             IF k = "owners" THEN owners.owners
                             ELSE properties[k]]
        exceptions ==
            (IF TableNameTaken(store, model, model_id, properties)
             THEN <<"DatamanageExistsValidationError">> ELSE << >>)
            \o
            (IF DatabaseChanged(properties, model)
             THEN <<"DatabaseChangeValidationError">> ELSE << >>)
            \o
            (IF owners.raised
             THEN <<"OwnersNotFoundValidationError">> ELSE << >>)
            \o
            (IF Has(properties, "columns") /\ properties.columns # << >>
             THEN _validate_columns(model, properties.columns,
                                    properties.override_columns)
             ELSE << >>)
            \o
            (IF Has(properties, "metrics") /\ properties.metrics # << >>
             THEN _validate_metrics(model, properties.metrics)
             ELSE << >>)
    IN  [outcome |-> IF exceptions # << >>
                     THEN "DatamanageInvalidError" ELSE "ok",
         exceptions |-> exceptions,
         properties |-> populated]

\* the (id, name) pairs a dataset holds after DatamanageDAO.update_columns /
\* update_metrics: a submitted item with the id of an existing row renames
\* it (the last one wins), one without id becomes a new row with the
\* smallest free id, and the rows not named are deleted; with override all
\* old rows are deleted and every submitted item becomes a new row
SyncPairs(oldIds, items, key, override) ==
    LET n == Len(items)
        withId == IF override THEN {}
                  ELSE {i \in 1..n : Has(items[i], "id")
                                     /\ items[i].id \in oldIds}
        keptIds == {items[i].id : i \in withId}
        lastOf(k) == CHOOSE i \in withId :
                        /\ items[i].id = k
                        /\ \A j \in withId : items[j].id = k => j <= i
        fresh == SortedSeq((1..n) \ withId)
        free == SortedSeq(ItemIds \ keptIds)
    IN  [fits |-> Len(fresh) <= Len(free),
         kept |-> keptIds,
         pairs |-> {<<k, items[lastOf(k)][key]>> : k \in keptIds}
                   \cup {<<free[j], items[fresh[j]][key]>> :
                           j \in {x \in DOMAIN fresh : x <= Len(free)}}]

\* the extra of the row a synchronised row continues (None for a new row)
ExtraOf(rows, kept, id) ==
    IF id \in kept THEN (CHOOSE c \in rows : c.id = id).extra ELSE None

update_columns(model, items, override) ==
    LET sync == SyncPairs({c.id : c \in model.columns}, items,
                          "column_name", override)
    IN {[id |-> p[1], column_name |-> p[2],
         extra |-> ExtraOf(model.columns, sync.kept, p[1])] : p \in sync.pairs}

update_metrics(model, items) ==
    LET sync == SyncPairs({c.id : c \in model.metrics}, items,
                          "metric_name", FALSE)
    IN {[id |-> p[1], metric_name |-> p[2],
         extra |-> ExtraOf(model.metrics, sync.kept, p[1])] : p \in sync.pairs}

\* the ids the model has are enough to store the submitted lists
Fits(model, properties) ==
    /\ Has(properties, "columns") =>
         SyncPairs({c.id : c \in model.columns}, properties.columns,
                   "column_name", properties.override_columns).fits
    /\ Has(properties, "metrics") =>
         SyncPairs({c.id : c \in model.metrics}, properties.metrics,
                   "metric_name", FALSE).fits

\* DatamanageDAO.update(model, properties): the model with the columns and
\* metrics synchronised and the other properties set
DatamanageDAO_update(model, properties) ==
    [model EXCEPT
       !.table_name = IF Has(properties, "table_name")
                      THEN properties.table_name ELSE @,
       !.owners = IF Has(properties, "owners") THEN properties.owners ELSE @,
       !.columns = IF Has(properties, "columns")
                   THEN update_columns(model, properties.columns,
                                       properties.override_columns)
                   ELSE @,
       !.metrics = IF Has(properties, "metrics")
                   THEN update_metrics(model, properties.metrics)
                   ELSE @]

\* DatamanageDAO.update failing: the DAO rolls the session back before it
\* raises DAOUpdateFailedError
DatamanageDAO_update_failed(sess, comm) == comm

\* a mutant of OnDAOUpdateFailedError: the DAO's error is swallowed
DAOUpdateErrorSwallowed == "ok"

\* update.py lines 70-72: except DAOUpdateFailedError: raise
\* DatamanageUpdateFailedError
OnDAOUpdateFailedError == "DatamanageUpdateFailedError"

\* UpdateDatamanageCommand.__init__: data.copy() plus override_columns
UpdateProperties(data, override_columns) ==
    [k \in DOMAIN data \cup {"override_columns"} |->
        IF k = "override_columns" THEN override_columns ELSE data[k]]

\* UpdateDatamanageCommand.run.  fail: DatamanageDAO.update raises
\* DAOUpdateFailedError; the DAO commits on success and rolls the session
\* back before it raises.  The result records the "database" id of the
\* request body (0 when the body has none).
UpdateDatamanageCommand_run(sess, comm, model_id, data, override, user, fail) ==
    LET v == UpdateDatamanageCommand_validate(
                 sess, model_id, UpdateProperties(data, override),
                 user)
        res(outcome) ==
            [Result("update", model_id, user, outcome) EXCEPT
               !.database = IF Has(data, "database") THEN data.database
                            ELSE 0]
    IN IF v.outcome # "ok"
       THEN [session |-> sess, committed |-> comm,
             last |-> [res(v.outcome) EXCEPT !.exceptions = v.exceptions]]
       ELSE IF fail
       THEN [session |-> DatamanageDAO_update_failed(sess, comm),
             committed |-> comm,
             last |-> [res(OnDAOUpdateFailedError)
                         EXCEPT !.dao = TRUE, !.dao_failed = TRUE,
                                !.rollbacks = 1]]
       ELSE LET updated == Without(sess, model_id) \cup
                           {DatamanageDAO_update(find_by_id(sess, model_id),
                                                 v.properties)}
            IN [session |-> updated, committed |-> updated,
                last |-> [res("ok") EXCEPT
                            !.dao = TRUE, !.commits = 1,
                            !.returned = model_id]]

(* Inputs of the commands                                                  *)

ColumnItems ==
    {[column_name |-> n] : n \in ColumnNames}
    \cup {[id |-> i, column_name |-> n] : i \in ItemIds, n \in ColumnNames}

MetricItems ==
    {[metric_name |-> n] : n \in MetricNames}
    \cup {[id |-> i, metric_name |-> n] : i \in ItemIds, n \in MetricNames}

ColumnLists == {<< >>} \cup {<<c>> : c \in ColumnItems}
MetricLists == {<< >>} \cup {<<m>> : m \in MetricItems}

DatabaseOpts == {[database |-> i] : i \in DatabaseIds}
TableNameOpts == {[table_name |-> n] : n \in TableNames}
OwnersOpts == {[owners |-> <<i>>] : i \in OwnerIdInputs}
ColumnsOpts == {[columns |-> l] : l \in ColumnLists}
MetricsOpts == {[metrics |-> l] : l \in MetricLists}

\* the request bodies the update command is run with: no key or one key
CommandData ==
    {EmptyDict} \cup DatabaseOpts \cup TableNameOpts \cup OwnersOpts
                \cup ColumnsOpts \cup MetricsOpts

(* JSON as the JSON_KEYS code uses it                                      *)

PyDict(items) == [t |-> "dict", items |-> items]

\* a value json.dumps cannot serialise: it raises TypeError
PyObject == [t |-> "object"]

\* bool(v)
Truthy(v) ==
    CASE v.t = "None" -> FALSE
      [] v.t = "str" -> v.s # ""
      [] v.t = "int" -> v.n # 0
      [] v.t = "dict" -> v.items # {}
      [] OTHER -> TRUE

JSON_KEYS == {"params", "template_params", "extra"}

\* json.loads on the texts of the model: the decoded value, or
\* JSONDecodeError (ok is FALSE)
json_loads(s) ==
    CASE s = "null" -> [ok |-> TRUE, value |-> None]
      [] s = "{}" -> [ok |-> TRUE, value |-> PyDict({})]
      [] s = "{\"a\": 1}" -> [ok |-> TRUE, value |-> PyDict({<<"a", 1>>})]
      [] s = "0" -> [ok |-> TRUE, value |-> PyInt(0)]
      [] s = "\"\"" -> [ok |-> TRUE, value |-> PyStr("")]
      [] s = "\"abc\"" -> [ok |-> TRUE, value |-> PyStr("abc")]
      [] OTHER -> [ok |-> FALSE, value |-> None]

\* json.dumps on the values of the model: the text, or TypeError (ok is
\* FALSE).  No string of the model holds a character that needs escaping.
json_dumps(v) ==
    CASE v.t = "None" -> [ok |-> TRUE, text |-> "null"]
      [] v.t = "str" -> [ok |-> TRUE, text |-> "\"" \o v.s \o "\""]
      [] v.t = "int" -> [ok |-> TRUE, text |-> ToString(v.n)]
      [] v.t = "dict" ->
           [ok |-> TRUE,
            text |-> IF v.items = {} THEN "{}" ELSE "{\"a\": 1}"]
      [] OTHER -> [ok |-> FALSE, text |-> ""]

(* export.py                                                               *)

\* the rows of a dataset in the order of their ids
RowsInOrder(rows) ==
    LET ids == SortedSeq({c.id : c \in rows})
    IN [n \in DOMAIN ids |-> CHOOSE c \in rows : c.id = ids[n]]

\* SqlaTable.export_to_dict(recursive=True, include_parent_ref=False,
\* export_uuids=True): the fields of the model, its columns and metrics
export_to_dict(model) ==
    [table_name |-> model.table_name,
     uuid |-> model.uuid,
     params |-> model.params,
     template_params |-> model.template_params,
     extra |-> model.extra,
     columns |-> [n \in DOMAIN RowsInOrder(model.columns) |->
                    [column_name |-> RowsInOrder(model.columns)[n].column_name,
                     extra |-> RowsInOrder(model.columns)[n].extra]],
     metrics |-> [n \in DOMAIN RowsInOrder(model.metrics) |->
                    [metric_name |-> RowsInOrder(model.metrics)[n].metric_name,
                     extra |-> RowsInOrder(model.metrics)[n].extra]]]

\* export.py lines 61-65 and 68-74: a truthy value is replaced by
\* json.loads of it, unless that raises JSONDecodeError
ExportDecode(v) ==
    IF Truthy(v)
    THEN IF json_loads(v.s).ok THEN json_loads(v.s).value ELSE v
    ELSE v

\* ExportDatamanageCommand._export: the payload written for the dataset
_export(model) ==
    LET payload == export_to_dict(model)
        decoded ==
            [k \in DOMAIN payload |->
                IF k \in JSON_KEYS THEN ExportDecode(payload[k])
                ELSE IF k \in {"metrics", "columns"}
                THEN [n \in DOMAIN payload[k] |->
                        [payload[k][n] EXCEPT !.extra = ExportDecode(@)]]
                ELSE payload[k]]
    IN  [k \in DOMAIN decoded \cup {"version", "database_uuid"} |->
            IF k = "version" THEN "1.0.0"
            ELSE IF k = "database_uuid" THEN model.database_id
            ELSE decoded[k]]

(* importers/v1/utils.py                                                   *)

\* utils.py lines 93-97: a value that is not None is replaced by json.dumps
\* of it; on TypeError it stays
ImportEncode(v) ==
    IF v # None
    THEN IF json_dumps(v).ok THEN PyStr(json_dumps(v).text) ELSE v
    ELSE v

\* utils.py lines 100-107: the same for the extra of a column or metric,
\* but on TypeError it becomes None
ImportEncodeExtra(v) ==
    IF v # None
    THEN IF json_dumps(v).ok THEN PyStr(json_dumps(v).text) ELSE None
    ELSE v

\* utils.py lines 98-107 on one list of the config
EncodeRows(rows) ==
    [n \in DOMAIN rows |->
        IF Has(rows[n], "extra")
        THEN [rows[n] EXCEPT !.extra = ImportEncodeExtra(@)]
        ELSE rows[n]]

\* utils.py lines 91-107: config.copy() is shallow, so the lists of
\* "metrics" and "columns" are shared with the caller's dict: `callee` is
\* the copy the function goes on with, `caller` the dict the caller holds
EncodeConfig(cfg) ==
    LET nested == [k \in DOMAIN cfg |->
                     IF k \in {"metrics", "columns"}
                     THEN EncodeRows(cfg[k]) ELSE cfg[k]]
    IN  [caller |-> nested,
         callee |-> [k \in DOMAIN nested |->
                       IF k \in JSON_KEYS THEN ImportEncode(nested[k])
                       ELSE nested[k]]]

(* The commands as a state machine                                         *)

\* the first two datasets live in database 1, the others in database 2
DatabaseOf(id) == IF id <= 2 THEN 1 ELSE 2

InitialDataset(id, name) ==
    [id |-> id, uuid |-> id, database_id |-> DatabaseOf(id),
     table_name |-> name, owners |-> <<2>>,
     columns |-> {[id |-> 1, column_name |-> "a", extra |-> None]},
     metrics |-> {},
     params |-> None, template_params |-> None, extra |-> None]

\* no two datasets of the same database share a table name
UniqueNames(store) ==
    \A d, e \in store :
        (d.id # e.id /\ d.database_id = e.database_id)
            => d.table_name # e.table_name

Init ==
    /\ \E names \in [DatasetIds -> TableNames] :
          /\ session = {InitialDataset(i, names[i]) : i \in DatasetIds}
          /\ UniqueNames(session)
    /\ committed = session
    /\ last = NoResult
    /\ users = UserIds
    /\ config = EmptyDict
    /\ tables = NoTables

\* a DeleteDatamanageCommand is constructed and run
Delete ==
    /\ last.op = "none"
    /\ \E model_id \in DatasetIds, user \in UserIds, fail \in DeleteFailures :
       \E r \in {DeleteDatamanageCommand_run(session, committed, model_id,
                                             user, fail)} :
           /\ session' = r.session
           /\ committed' = r.committed
           /\ last' = r.last
           /\ UNCHANGED <<users, config, tables>>

\* an UpdateDatamanageCommand is constructed and run
Update ==
    /\ last.op = "none"
    /\ \E model_id \in DatasetIds, user \in UserIds, data \in CommandData,
          fail \in BOOLEAN :
       \E override_columns \in
               IF Has(data, "columns") THEN BOOLEAN ELSE {FALSE} :
           /\ Exists(session, model_id) =>
                Fits(find_by_id(session, model_id),
                     UpdateProperties(data, override_columns))
           /\ \E r \in {UpdateDatamanageCommand_run(
                           session, committed, model_id, data,
                           override_columns, user, fail)} :
                 /\ session' = r.session
                 /\ committed' = r.committed
                 /\ last' = r.last
                 /\ UNCHANGED <<users, config, tables>>

\* the caller has the result; the next command object starts without one
NewCommand ==
    /\ last.op # "none"
    /\ last' = NoResult
    /\ UNCHANGED <<session, committed, users, config, tables>>

Next == Delete \/ Update \/ NewCommand

Spec == Init /\ [][Next]_vars

(* Claims on the delete and update commands                                *)

DeleteRejected ==
    {"DatamanageNotFoundError", "DatamanageForbiddenError"}

\* C1: DeleteDatamanageCommand.run raises DatamanageNotFoundError when no
\* dataset has the id (whoever asks), DatamanageForbiddenError when the
\* dataset exists and the user fails the ownership check, and in both cases
\* neither DatamanageDAO.delete nor the commit is reached and the datasets
\* stay as they were; a delete that reaches the DAO passed both checks.
C1_DeleteOnlyAfterValidation ==
    [][last'.op = "delete" =>
         /\ ~Exists(session, last'.model_id)
              => last'.outcome = "DatamanageNotFoundError"
         /\ (/\ Exists(session, last'.model_id)
             /\ raise_for_ownership(last'.user,
                                    find_by_id(session, last'.model_id)))
              => last'.outcome = "DatamanageForbiddenError"
         /\ last'.outcome \in DeleteRejected
              => /\ ~last'.dao
                 /\ last'.commits = 0
                 /\ committed' = committed
                 /\ session' = session
         /\ last'.dao
              => /\ Exists(session, last'.model_id)
                 /\ ~raise_for_ownership(last'.user,
                                         find_by_id(session, last'.model_id))
      ]_vars

\* C1 witness: a delete by a user who is no owner was refused while the
\* dataset is still stored
C1_Witness ==
    /\ last.op = "delete"
    /\ last.outcome = "DatamanageForbiddenError"
    /\ Exists(committed, last.model_id)

\* C2: after DeleteDatamanageCommand.run a failure of the DAO delete or of
\* the commit has been answered by one rollback and
\* DatamanageDeleteFailedError, the dataset is still stored and the session
\* holds no pending deletion; a successful run committed once, returned the
\* deleted model and the dataset is gone.
C2_DeleteFailureRollsBack ==
    last.op = "delete" =>
        /\ last.dao_failed <=> last.outcome = "DatamanageDeleteFailedError"
        /\ last.outcome = "DatamanageDeleteFailedError"
             => /\ last.rollbacks = 1
                /\ last.commits = 0
                /\ Exists(committed, last.model_id)
                /\ session = committed
        /\ last.outcome = "ok"
             => /\ last.commits = 1
                /\ last.rollbacks = 0
                /\ last.returned = last.model_id
                /\ ~Exists(committed, last.model_id)
                /\ session = committed

\* C2 witness: a delete failed in the DAO or in the commit
C2_Witness ==
    /\ last.op = "delete"
    /\ last.outcome = "DatamanageDeleteFailedError"
    /\ last.dao_failed

UpdateValidated ==
    /\ last.op = "update"
    /\ last.outcome \notin {"DatamanageNotFoundError",
                            "DatamanageForbiddenError"}

\* C4: an update records DatabaseChangeValidationError exactly when its
\* body carries a "database" id that differs from the dataset's database;
\* the dataset's own database id is accepted.
C4_DatabaseChangeOnlyWhenDifferent ==
    UpdateValidated =>
        ("DatabaseChangeValidationError" \in Range(last.exceptions)
            <=> /\ last.database # 0
                /\ last.database
                     # find_by_id(committed, last.model_id).database_id)

\* C5: no two stored datasets of the same database share a table name,
\* whatever updates ran; an update refused for a name that is taken raised
\* DatamanageInvalidError and never reached DatamanageDAO.update.
C5_NamesStayUnique ==
    /\ UniqueNames(committed)
    /\ UniqueNames(session)
    /\ last.op = "update" =>
         /\ last.outcome = "DatamanageInvalidError"
              <=> last.exceptions # << >>
         /\ "DatamanageExistsValidationError" \in Range(last.exceptions)
              => /\ last.outcome = "DatamanageInvalidError"
                 /\ ~last.dao

\* C5 witness: an update was refused because the name is taken, with two
\* datasets stored in the same database
C5_Witness ==
    /\ last.op = "update"
    /\ "DatamanageExistsValidationError" \in Range(last.exceptions)
    /\ \E d, e \in committed : d.id # e.id /\ d.database_id = e.database_id

(* views/users/api.py                                                      *)

\* what flask.g holds for a request: no user, the anonymous user, a user
\* whose lookup raises NoAuthorizationError, or a logged-in user
AnonymousUser == [t |-> "AnonymousUser"]
NoAuthorization == [t |-> "NoAuthorizationError"]
PyUser(id) == [t |-> "User", id |-> id]

RequestUsers(table) ==
    {None, AnonymousUser, NoAuthorization} \cup {PyUser(i) : i \in table}

\* UserResponseSchema.dump: an attribute the object lacks is left out
user_response_schema_dump(user) ==
    IF Has(user, "id") THEN [id |-> user.id] ELSE EmptyDict

\* bootstrap_user_data(user, include_perms=True)
bootstrap_user_data(user) ==
    IF Has(user, "id")
    THEN [id |-> user.id,
          roles |-> IF user.id \in AdminIds THEN {"Admin"} ELSE {"Gamma"}]
    ELSE EmptyDict

Response(endpoint, g_user, status, result) ==
    [op |-> endpoint, g_user |-> g_user, status |-> status, result |-> result]

\* a mutant of Rejected401: the anonymous user is let through
Rejected401UnlessAnonymous(g_user) ==
    g_user = None \/ g_user = NoAuthorization

\* api.py lines 83-87 and 113-117: g.user is None, or is anonymous, or
\* reading it raises NoAuthorizationError
Rejected401(g_user) ==
    \/ g_user = NoAuthorization
    \/ g_user = None
    \/ g_user = AnonymousUser

\* CurrentUserRestApi.get_all: every user is dumped, whoever asks
get_all(g_user, table) ==
    LET ids == SortedSeq(table)
    IN Response("get_all", g_user, 200,
                [n \in DOMAIN ids |-> user_response_schema_dump(PyUser(ids[n]))])

\* CurrentUserRestApi.get_me
get_me(g_user) ==
    IF Rejected401(g_user)
    THEN Response("get_me", g_user, 401, << >>)
    ELSE Response("get_me", g_user, 200, user_response_schema_dump(g_user))

\* CurrentUserRestApi.get_my_roles
get_my_roles(g_user) ==
    IF Rejected401(g_user)
    THEN Response("get_my_roles", g_user, 401, << >>)
    ELSE Response("get_my_roles", g_user, 200, bootstrap_user_data(g_user))

InitApi ==
    /\ users \in SUBSET (1..MaxUsers)
    /\ session = {}
    /\ committed = {}
    /\ last = NoResult
    /\ config = EmptyDict
    /\ tables = NoTables

GetAll ==
    \E g_user \in RequestUsers(users) :
        /\ last' = get_all(g_user, users)
        /\ UNCHANGED <<session, committed, users, config, tables>>

GetMe ==
    \E g_user \in RequestUsers(users) :
        /\ last' = get_me(g_user)
        /\ UNCHANGED <<session, committed, users, config, tables>>

GetMyRoles ==
    \E g_user \in RequestUsers(users) :
        /\ last' = get_my_roles(g_user)
        /\ UNCHANGED <<session, committed, users, config, tables>>

NextApi == GetAll \/ GetMe \/ GetMyRoles

SpecApi == InitApi /\ [][NextApi]_vars

\* the request comes from nobody who is logged in
Unauthenticated(g_user) == g_user.t # "User"

\* C6: GET /users/all answers 401 to an unauthenticated agent and 200 with
\* the list of users only to an authenticated user.
C6_GetAllNeedsAuthentication ==
    last.op = "get_all" =>
        /\ Unauthenticated(last.g_user) => last.status = 401
        /\ last.status = 200 => ~Unauthenticated(last.g_user)

\* C7: get_me and get_my_roles answer 401 exactly when the session user is
\* None, anonymous or raises NoAuthorizationError, and otherwise 200 with
\* the profile (get_me) or the roles (get_my_roles) of the requesting user.
C7_CurrentUserNeedsAuthentication ==
    last.op \in {"get_me", "get_my_roles"} =>
        /\ last.status \in {200, 401}
        /\ last.status = 401 <=> Unauthenticated(last.g_user)
        /\ last.status = 200 =>
             /\ last.g_user.id \in users
             /\ last.result.id = last.g_user.id
             /\ last.op = "get_me" =>
                  last.result = user_response_schema_dump(last.g_user)
             /\ last.op = "get_my_roles" =>
                  last.result = bootstrap_user_data(last.g_user)

\* C7 witness: the anonymous user asked for its roles and got 401
C7_Witness ==
    /\ last.op = "get_my_roles"
    /\ last.g_user = AnonymousUser
    /\ last.status = 401

(* importers/v1/utils.py: import_datamanage                                *)

\* dict.get(key): None when the key is absent
Get(d, key) == IF Has(d, key) THEN d[key] ELSE None

\* dict.get(key, []) on a key that holds a list
GetList(d, key) == IF Has(d, key) THEN d[key] ELSE << >>

Max(S) == CHOOSE x \in S : \A y \in S : y <= x

\* the id the database gives to the next row of a table
NextId(rows) == IF rows = {} THEN 1 ELSE Max({r.id : r \in rows}) + 1

\* session.query(SqlaTable).filter_by(uuid=...): uuid is a unique column
ByUuid(sess, uuid) == {d \in sess : d.uuid = uuid}

\* import_from_dict on one column or metric of the config: the row of the
\* parent with the same name is updated, else a row is created
ImportChild(rows, item, key) ==
    IF \E r \in rows : r[key] = item[key]
    THEN {IF r[key] = item[key] /\ Has(item, "extra")
          THEN [r EXCEPT !.extra = item.extra] ELSE r : r \in rows}
    ELSE rows \cup
         {[k \in {"id", key, "extra"} |->
             IF k = "id" THEN NextId(rows)
             ELSE IF k = key THEN item[key] ELSE Get(item, "extra")]}

RECURSIVE ImportChildren(_, _, _)
ImportChildren(rows, items, key) ==
    IF items = << >> THEN rows
    ELSE ImportChildren(ImportChild(rows, Head(items), key), Tail(items), key)

\* the children of an updated parent: with sync the rows that the config
\* does not name are deleted
SyncChildren(rows, items, key, synced) ==
    LET merged == ImportChildren(rows, items, key)
    IN IF synced
       THEN {r \in merged : \E n \in DOMAIN items : items[n][key] = r[key]}
       ELSE merged

\* the rows import_from_dict finds for the config: by uuid, or by the
\* unique (database_id, table_name)
ImportMatches(sess, cfg) ==
    {d \in sess :
        \/ d.uuid = cfg.uuid
        \/ d.database_id = cfg.database_id /\ d.table_name = cfg.table_name}

ImportFields == {"uuid", "database_id", "table_name"} \cup JSON_KEYS

\* the matching row gets the fields of the config that are present
ImportUpdated(obj, cfg, sync) ==
    LET fields == [k \in DOMAIN obj |->
                     IF k \in ImportFields /\ Has(cfg, k) THEN cfg[k]
                     ELSE obj[k]]
    IN [fields EXCEPT
          !.columns = SyncChildren(@, GetList(cfg, "columns"), "column_name",
                                   "columns" \in sync),
          !.metrics = SyncChildren(@, GetList(cfg, "metrics"), "metric_name",
                                   "metrics" \in sync)]

\* a new row, not flushed yet: it has no id (0)
ImportCreated(cfg) ==
    [id |-> 0, uuid |-> cfg.uuid, database_id |-> cfg.database_id,
     table_name |-> cfg.table_name, owners |-> << >>,
     columns |-> ImportChildren({}, GetList(cfg, "columns"), "column_name"),
     metrics |-> ImportChildren({}, GetList(cfg, "metrics"), "metric_name"),
     params |-> Get(cfg, "params"),
     template_params |-> Get(cfg, "template_params"),
     extra |-> Get(cfg, "extra")]

\* SqlaTable.import_from_dict(session, config, recursive=True, sync=sync):
\* raises MultipleResultsFound when more than one row matches
import_from_dict(sess, cfg, sync) ==
    LET found == ImportMatches(sess, cfg)
    IN  IF Cardinality(found) > 1
        THEN [raised |-> TRUE, session |-> sess, id |-> 0]
        ELSE IF found = {}
        THEN [raised |-> FALSE, session |-> sess \cup {ImportCreated(cfg)},
              id |-> 0]
        ELSE LET obj == CHOOSE d \in found : TRUE
             IN [raised |-> FALSE,
                 session |-> (sess \ {obj}) \cup {ImportUpdated(obj, cfg, sync)},
                 id |-> obj.id]

\* session.flush(): the pending row gets its id
session_flush(sess) ==
    {IF d.id = 0 THEN [d EXCEPT !.id = NextId(sess)] ELSE d : d \in sess}

\* a mutant of ReturnsExisting: the import always goes on
ReturnsExistingNever(existing, overwrite) == FALSE

\* utils.py lines 85-87: the dataset with the uuid of the config is there
\* and overwrite is off
ReturnsExisting(existing, overwrite) == existing # {} /\ ~overwrite

\* utils.py lines 85-88: config["id"] = existing.id, on the caller's dict
WithExistingId(cfg, existing) ==
    IF existing # {}
    THEN [k \in DOMAIN cfg \cup {"id"} |->
            IF k = "id" THEN (CHOOSE d \in existing : TRUE).id ELSE cfg[k]]
    ELSE cfg

\* flask.g of the importing request: g has no user attribute, g.user is
\* None, or g.user is a user
NoUserAttribute == [t |-> "unset"]
ImportUsers == {NoUserAttribute, None, PyUser(2)}

\* utils.py line 145: hasattr(g, "user") and g.user
HasUser(g_user) == g_user # NoUserAttribute /\ Truthy(g_user)

\* utils.py lines 132-139: has_table_by_name, assumed TRUE when it raises
table_exists(tbls, name, check_raises) ==
    IF check_raises THEN TRUE ELSE tbls[name] # "missing"

\* load_data: the table is replaced by the contents of the downloaded file
load_data(tbls, data_uri, name) == [tbls EXCEPT ![name] = data_uri.s]

\* a mutant of LoadsData: force_data is not looked at
LoadsDataUnforced(data_uri, exists, force_data) ==
    Truthy(data_uri) /\ ~exists

\* utils.py line 141
LoadsData(data_uri, exists, force_data) ==
    Truthy(data_uri) /\ (~exists \/ force_data)

ImportResult(cfg, overwrite, force_data, g_user, check_raises, returned, path, multiple, loaded) ==
    [op |-> "import", given |-> cfg, overwrite |-> overwrite,
     force_data |-> force_data, g_user |-> g_user,
     check_raises |-> check_raises, returned |-> returned,
     path |-> path, multiple |-> multiple, loaded |-> loaded]

\* import_datamanage(session, config, overwrite, force_data) under a
\* request whose flask.g holds g_user
import_datamanage(sess, tbls, cfg, overwrite, force_data, g_user, check_raises) ==
    LET existing == ByUuid(sess, cfg.uuid)
    IN
    IF ReturnsExisting(existing, overwrite)
    THEN [session |-> sess, tables |-> tbls, config |-> cfg,
          last |-> ImportResult(cfg, overwrite, force_data, g_user, check_raises,
                                (CHOOSE d \in existing : TRUE).id,
                                "existing", FALSE, FALSE)]
    ELSE
    LET encoded == EncodeConfig(WithExistingId(cfg, existing))
        sync == IF overwrite THEN {"columns", "metrics"} ELSE {}
        data_uri == Get(encoded.callee, "data")
        imported == import_from_dict(sess, encoded.callee, sync)
        flushed == IF imported.raised THEN sess
                   ELSE IF imported.id = 0
                   THEN session_flush(imported.session)
                   ELSE imported.session
        datamanage ==
            IF imported.raised THEN CHOOSE d \in existing : TRUE
            ELSE IF imported.id = 0
            THEN CHOOSE d \in flushed : d \notin imported.session
            ELSE find_by_id(flushed, imported.id)
        exists == table_exists(tbls, datamanage.table_name, check_raises)
        loaded == LoadsData(data_uri, exists, force_data)
        owned == IF HasUser(g_user)
                 THEN [datamanage EXCEPT !.owners = Append(@, g_user.id)]
                 ELSE datamanage
    IN  [session |-> (flushed \ {datamanage}) \cup {owned},
         tables |-> IF loaded
                    THEN load_data(tbls, data_uri, datamanage.table_name)
                    ELSE tbls,
         config |-> encoded.caller,
         last |-> ImportResult(cfg, overwrite, force_data, g_user, check_raises,
                               datamanage.id,
                               IF imported.raised THEN "multiple"
                               ELSE IF imported.id = 0 THEN "created"
                               ELSE "updated",
                               imported.raised, loaded)]

(* Export followed by import                                               *)

\* what the JSON-encoded columns of a stored dataset hold
JsonTexts ==
    {None, PyStr(""), PyStr("abc"), PyStr("{}"), PyStr("null"), PyStr("0"),
     PyStr("{\"a\": 1}")}

RoundTripDataset(params, template_params, extra, column_extra, metric_extra) ==
    [InitialDataset(1, "t1") EXCEPT
        !.params = params, !.template_params = template_params,
        !.extra = extra,
        !.columns = {[id |-> 1, column_name |-> "a", extra |-> column_extra]},
        !.metrics = {[id |-> 1, metric_name |-> "m", extra |-> metric_extra]}]

InitRoundTrip ==
    /\ \E params, template_params, extra, column_extra, metric_extra \in JsonTexts :
          session = {RoundTripDataset(params, template_params, extra,
                                      column_extra, metric_extra)}
    /\ committed = session
    /\ last = NoResult
    /\ users = UserIds
    /\ config = EmptyDict
    /\ tables = NoTables

\* the importing command resolves database_uuid to the id of the database
WithDatabaseId(cfg) ==
    [k \in DOMAIN cfg \cup {"database_id"} |->
        IF k = "database_id" THEN cfg.database_uuid ELSE cfg[k]]

\* ExportDatamanageCommand._export writes the payload of the dataset
Export ==
    /\ last.op = "none"
    /\ \E model \in session :
          /\ config' = _export(model)
          /\ last' = Result("export", model.id, 0, "ok")
    /\ UNCHANGED <<session, committed, users, tables>>

\* the exported payload is imported again, over the dataset it came from
ReImport ==
    /\ last.op = "export"
    /\ \E r \in {import_datamanage(session, tables, WithDatabaseId(config),
                                   TRUE, FALSE, NoUserAttribute, FALSE)} :
          /\ session' = r.session
          /\ tables' = r.tables
          /\ config' = r.config
          /\ last' = r.last
    /\ UNCHANGED <<committed, users>>

NextRoundTrip == Export \/ ReImport

SpecRoundTrip == InitRoundTrip /\ [][NextRoundTrip]_vars

(* import_datamanage as a state machine                                    *)

ImportColumnLists ==
    {<< >>,
     <<[column_name |-> "a", extra |-> None]>>,
     <<[column_name |-> "a", extra |-> PyDict({})]>>,
     <<[column_name |-> "b", extra |-> PyObject]>>,
     <<[column_name |-> "b"]>>}

ImportMetricLists == {<< >>, <<[metric_name |-> "m", extra |-> PyDict({})]>>}

ImportParams == {None, PyDict({})}

\* the "data" key of a config: absent (None here), empty, or a URI
ImportData == {None, PyStr(""), PyStr("uri")}

ImportConfig(uuid, database_id, table_name, params, columns, metrics, data) ==
    LET cfg == [uuid |-> uuid, database_id |-> database_id,
                table_name |-> table_name, params |-> params,
                columns |-> columns, metrics |-> metrics]
    IN IF data = None THEN cfg
       ELSE [k \in DOMAIN cfg \cup {"data"} |->
               IF k = "data" THEN data ELSE cfg[k]]

ImportConfigs ==
    {ImportConfig(uuid, database_id, table_name, params, columns, metrics, data) :
        uuid \in 1..(MaxDatasets + 1), database_id \in DatabaseIds,
        table_name \in TableNames, params \in ImportParams,
        columns \in ImportColumnLists, metrics \in ImportMetricLists,
        data \in ImportData}

InitImport ==
    /\ \E names \in [DatasetIds -> TableNames], ids \in SUBSET DatasetIds :
          /\ session = {InitialDataset(i, names[i]) : i \in ids}
          /\ UniqueNames(session)
    /\ committed = session
    /\ last = NoResult
    /\ users = UserIds
    /\ config = EmptyDict
    /\ tables \in [TableNames -> {"missing", "rows"}]

\* one call of import_datamanage
Import ==
    /\ last.op = "none"
    /\ \E cfg \in ImportConfigs, overwrite \in BOOLEAN, force_data \in BOOLEAN,
          g_user \in ImportUsers, check_raises \in BOOLEAN :
       \E r \in {import_datamanage(session, tables, cfg, overwrite,
                                   force_data, g_user, check_raises)} :
          /\ session' = r.session
          /\ tables' = r.tables
          /\ config' = r.config
          /\ last' = r.last
    /\ UNCHANGED <<committed, users>>

NextImport == Import

SpecImport == InitImport /\ [][NextImport]_vars

(* Claims on export and import                                             *)

\* the JSON value a stored text stands for: None stands for null
StoredJson(v) ==
    IF v = None THEN [ok |-> TRUE, value |-> None]
    ELSE IF v.t = "str" THEN json_loads(v.s)
    ELSE [ok |-> FALSE, value |-> None]

\* two stored values are the same, or are JSON texts of the same value
Equivalent(v, w) ==
    \/ v = w
    \/ /\ StoredJson(v).ok
       /\ StoredJson(w).ok
       /\ StoredJson(v).value = StoredJson(w).value

EquivalentRows(rows, others, key) ==
    /\ {r[key] : r \in rows} = {r[key] : r \in others}
    /\ \A r \in rows, o \in others :
          r[key] = o[key] => Equivalent(r.extra, o.extra)

\* C8: export followed by import is a round trip on params, template_params
\* and extra of the dataset and on extra of its columns and metrics: the
\* value stored afterwards is equivalent to the one stored before.
C8_ExportImportRoundTrip ==
    last.op = "import" =>
        \A d \in session : \E o \in committed :
            /\ o.id = d.id
            /\ \A k \in JSON_KEYS : Equivalent(o[k], d[k])
            /\ EquivalentRows(o.columns, d.columns, "column_name")
            /\ EquivalentRows(o.metrics, d.metrics, "metric_name")

\* C9: with overwrite off and the uuid of an existing dataset, the import
\* returns that dataset and changes nothing: no row, no backing table, no
\* owner, and nothing is loaded.
C9_ExistingReturnedUntouched ==
    [][(/\ last'.op = "import"
        /\ ~last'.overwrite
        /\ ByUuid(session, last'.given.uuid) # {})
       => /\ session' = session
          /\ tables' = tables
          /\ ~last'.loaded
          /\ \E d \in ByUuid(session, last'.given.uuid) :
                last'.returned = d.id]_vars

\* C9 witness: such an import was made with force_data, a data URI and a
\* current user
C9_Witness ==
    /\ last.op = "import"
    /\ ~last.overwrite
    /\ ByUuid(committed, last.given.uuid) # {}
    /\ last.force_data
    /\ Truthy(Get(last.given, "data"))
    /\ HasUser(last.g_user)
    /\ last.path = "existing"
    /\ session = committed

\* C10: when import_from_dict raises MultipleResultsFound, the dataset with
\* the uuid of the config is returned as it was: its row, its owners and its
\* backing table are the same as before the call.
C10_MultipleResultsLeavesDataset ==
    [][(last'.op = "import" /\ last'.multiple)
       => /\ session' = session
          /\ tables' = tables
          /\ \E d \in ByUuid(session, last'.given.uuid) :
                last'.returned = d.id]_vars

(* The update command on request bodies with several keys                  *)

RequestItemIds == {1, 2}     \* submitted column and metric ids: 2 is no row

RequestColumnItems ==
    {[column_name |-> n] : n \in ColumnNames}
    \cup {[id |-> i, column_name |-> n] : i \in RequestItemIds, n \in ColumnNames}

RequestMetricItems ==
    {[metric_name |-> n] : n \in MetricNames}
    \cup {[id |-> i, metric_name |-> n] : i \in RequestItemIds, n \in MetricNames}

\* the lists of at most two items
ListsOf(items) ==
    {<< >>} \cup {<<x>> : x \in items} \cup {<<x, y>> : x, y \in items}

\* a request body: every key is there or not
RequestData(database, table_name, owners, columns, metrics) ==
    LET keys == (IF database = {} THEN {} ELSE {"database"})
                \cup (IF table_name = {} THEN {} ELSE {"table_name"})
                \cup (IF owners = {} THEN {} ELSE {"owners"})
                \cup (IF columns = {} THEN {} ELSE {"columns"})
                \cup (IF metrics = {} THEN {} ELSE {"metrics"})
        only(S) == CHOOSE x \in S : TRUE
    IN [k \in keys |->
          CASE k = "database" -> only(database)
            [] k = "table_name" -> only(table_name)
            [] k = "owners" -> only(owners)
            [] k = "columns" -> only(columns)
            [] k = "metrics" -> only(metrics)]

\* {} (the key is absent) or {v} for a value v of S
Optional(S) == {{}} \cup {{v} : v \in S}

\* a stored dataset with a column and a metric; only dataset 1 is owned by
\* user 2
RequestDataset(id, name) ==
    [InitialDataset(id, name) EXCEPT
        !.owners = IF id = 1 THEN <<2>> ELSE << >>,
        !.metrics = {[id |-> 1, metric_name |-> "m", extra |-> None]}]

InitRequest ==
    /\ \E names \in [DatasetIds -> TableNames] :
          /\ session = {RequestDataset(i, names[i]) : i \in DatasetIds}
          /\ UniqueNames(session)
    /\ committed = session
    /\ last = NoResult
    /\ users = UserIds
    /\ config = EmptyDict
    /\ tables = NoTables

\* an UpdateDatamanageCommand is constructed on a request body and run; the
\* body, with override_columns, is kept in config
UpdateRequest ==
    /\ last.op = "none"
    /\ \E model_id \in 1..(MaxDatasets + 1), user \in UserIds,
          fail \in BOOLEAN, override_columns \in BOOLEAN,
          database \in Optional(DatabaseIds),
          table_name \in Optional(TableNames),
          owners \in Optional({<<i>> : i \in OwnerIdInputs}),
          columns \in Optional(ListsOf(RequestColumnItems)),
          metrics \in Optional(ListsOf(RequestMetricItems)) :
       \E data \in {RequestData(database, table_name, owners, columns, metrics)} :
       \E r \in {UpdateDatamanageCommand_run(session, committed, model_id,
                                             data, override_columns, user,
                                             fail)} :
          /\ r.last.dao =>
                Fits(find_by_id(session, model_id),
                     UpdateProperties(data, override_columns))
          /\ session' = r.session
          /\ committed' = r.committed
          /\ last' = r.last
          /\ config' = UpdateProperties(data, override_columns)
          /\ UNCHANGED <<users, tables>>

NextRequest == UpdateRequest

SpecRequest == InitRequest /\ [][NextRequest]_vars

(* Claims on the validation of an update                                   *)

\* the violations of a request body against a dataset of a store, said
\* without the command's own checks
NameViolation(store, model, body) ==
    /\ Has(body, "table_name")
    /\ \E d \in store : /\ d.id # model.id
                        /\ d.database_id = model.database_id
                        /\ d.table_name = body.table_name

DatabaseViolation(model, body) ==
    Has(body, "database") /\ body.database # model.database_id

OwnersViolation(body, known) ==
    Has(body, "owners") /\ \E n \in DOMAIN body.owners : body.owners[n] \notin known

RepeatedName(items, key) ==
    \E i, j \in DOMAIN items : i # j /\ items[i][key] = items[j][key]

UnknownId(rows, items) ==
    \E i \in DOMAIN items :
        Has(items[i], "id") /\ ~\E r \in rows : r.id = items[i].id

NewNameUsed(rows, items, key) ==
    \E i \in DOMAIN items :
        ~Has(items[i], "id") /\ \E r \in rows : r[key] = items[i][key]

ColumnErrors ==
    {"DatamanageColumnsDuplicateValidationError",
     "DatamanageColumnNotFoundValidationError",
     "DatamanageColumnsExistsValidationError"}

MetricErrors ==
    {"DatamanageMetricsDuplicateValidationError",
     "DatamanageMetricsNotFoundValidationError",
     "DatamanageMetricsExistsValidationError"}

ColumnsViolation(model, body) ==
    /\ Has(body, "columns")
    /\ \/ RepeatedName(body.columns, "column_name")
       \/ UnknownId(model.columns, body.columns)
       \/ /\ ~body.override_columns
          /\ NewNameUsed(model.columns, body.columns, "column_name")

MetricsViolation(model, body) ==
    /\ Has(body, "metrics")
    /\ \/ RepeatedName(body.metrics, "metric_name")
       \/ UnknownId(model.metrics, body.metrics)
       \/ NewNameUsed(model.metrics, body.metrics, "metric_name")

\* every violation of the body has its error among the collected ones
AllCollected(store, model, body, known, errors) ==
    /\ NameViolation(store, model, body)
          => "DatamanageExistsValidationError" \in errors
    /\ DatabaseViolation(model, body)
          => "DatabaseChangeValidationError" \in errors
    /\ OwnersViolation(body, known)
          => "OwnersNotFoundValidationError" \in errors
    /\ ColumnsViolation(model, body) => errors \cap ColumnErrors # {}
    /\ MetricsViolation(model, body) => errors \cap MetricErrors # {}

\* C11: run calls DatamanageDAO.update only after validate passed: a missing
\* dataset raises DatamanageNotFoundError, a failed ownership check raises
\* DatamanageForbiddenError, both before any other check, and every other
\* violation is collected into the one DatamanageInvalidError that is raised.
C11_UpdateOnlyAfterValidation ==
    [][last'.op = "update" =>
        /\ last'.dao =>
              /\ last'.exceptions = << >>
              /\ last'.outcome \in {"ok", "DatamanageUpdateFailedError"}
        /\ ~last'.dao => UNCHANGED <<session, committed>>
        /\ (last'.outcome = "DatamanageInvalidError") <=> (last'.exceptions # << >>)
        /\ IF ~Exists(session, last'.model_id)
           THEN /\ last'.outcome = "DatamanageNotFoundError"
                /\ last'.exceptions = << >>
                /\ ~last'.dao
           ELSE IF raise_for_ownership(last'.user,
                                       find_by_id(session, last'.model_id))
           THEN /\ last'.outcome = "DatamanageForbiddenError"
                /\ last'.exceptions = << >>
                /\ ~last'.dao
           ELSE /\ AllCollected(session, find_by_id(session, last'.model_id),
                                config', users, Range(last'.exceptions))
                /\ last'.exceptions = << >> => last'.dao]_vars

\* C11 witness: a body with a taken table name, an unknown owner and an
\* unknown column id was rejected with the three errors in one exception
C11_Witness ==
    /\ last.op = "update"
    /\ last.outcome = "DatamanageInvalidError"
    /\ ~last.dao
    /\ {"DatamanageExistsValidationError", "OwnersNotFoundValidationError",
        "DatamanageColumnNotFoundValidationError"} \subseteq Range(last.exceptions)
    /\ session = committed

\* the request passed the existence and ownership checks
Validated(store, result) ==
    /\ result.op = "update"
    /\ Exists(store, result.model_id)
    /\ ~raise_for_ownership(result.user, find_by_id(store, result.model_id))

\* the column errors a list of columns must get
ExpectedColumnErrors(rows, items, override_columns) ==
    IF RepeatedName(items, "column_name")
    THEN {"DatamanageColumnsDuplicateValidationError"}
    ELSE {e \in ColumnErrors :
            \/ /\ e = "DatamanageColumnNotFoundValidationError"
               /\ UnknownId(rows, items)
            \/ /\ e = "DatamanageColumnsExistsValidationError"
               /\ ~override_columns
               /\ NewNameUsed(rows, items, "column_name")}

\* the metric errors a list of metrics must get, whatever override_columns
ExpectedMetricErrors(rows, items) ==
    IF RepeatedName(items, "metric_name")
    THEN {"DatamanageMetricsDuplicateValidationError"}
    ELSE {e \in MetricErrors :
            \/ /\ e = "DatamanageMetricsNotFoundValidationError"
               /\ UnknownId(rows, items)
            \/ /\ e = "DatamanageMetricsExistsValidationError"
               /\ NewNameUsed(rows, items, "metric_name")}

\* C12: for the submitted columns, a repeated column_name records exactly
\* the duplicate error; otherwise the not-found error is recorded iff an id
\* is not of the dataset, and the exists error iff override_columns is off
\* and a column without id has a name of the dataset.  The metric name
\* check does not depend on override_columns.
C12_ColumnAndMetricErrors ==
    [][Validated(session, last') =>
        /\ Range(last'.exceptions) \cap ColumnErrors =
              IF Has(config', "columns")
              THEN ExpectedColumnErrors(
                       find_by_id(session, last'.model_id).columns,
                       config'.columns, config'.override_columns)
              ELSE {}
        /\ Range(last'.exceptions) \cap MetricErrors =
              IF Has(config', "metrics")
              THEN ExpectedMetricErrors(
                       find_by_id(session, last'.model_id).metrics,
                       config'.metrics)
              ELSE {}]_vars

\* C12 witness: with override_columns a new column with a name of the
\* dataset got no error, while the new metric with a name of the dataset did
C12_Witness ==
    /\ Validated(committed, last)
    /\ config.override_columns
    /\ Has(config, "columns")
    /\ config.columns = <<[column_name |-> "a"]>>
    /\ Has(config, "metrics")
    /\ config.metrics = <<[metric_name |-> "m"]>>
    /\ Range(last.exceptions) = {"DatamanageMetricsExistsValidationError"}

(* _get_duplicates on its own                                              *)

DuplicateNames == {"a", "b", "c"}

RECURSIVE ListsUpTo(_, _)
ListsUpTo(S, n) ==
    IF n = 0 THEN {<< >>}
    ELSE ListsUpTo(S, n - 1)
         \cup {Append(l, x) : l \in {m \in ListsUpTo(S, n - 1) : Len(m) = n - 1},
                              x \in S}

\* the lists of columns _get_duplicates is given
InitDuplicates ==
    /\ config \in ListsUpTo({[column_name |-> n] : n \in DuplicateNames}, MaxItems)
    /\ session = {}
    /\ committed = {}
    /\ last = NoResult
    /\ users = UserIds
    /\ tables = NoTables

\* UpdateDatamanageCommand._get_duplicates(data, "column_name")
GetDuplicates ==
    /\ last.op = "none"
    /\ last' = [op |-> "_get_duplicates",
                returned |-> _get_duplicates(config, "column_name")]
    /\ UNCHANGED <<session, committed, users, config, tables>>

NextDuplicates == GetDuplicates

SpecDuplicates == InitDuplicates /\ [][NextDuplicates]_vars

\* C13: _get_duplicates returns exactly the names that more than one item
\* carries, each once; the result is empty iff the names are pairwise
\* distinct.
C13_DuplicatesExact ==
    last.op = "_get_duplicates" =>
        /\ Range(last.returned) =
              {config[i].column_name : i \in
                  {i \in DOMAIN config :
                      \E j \in DOMAIN config :
                          j # i /\ config[j].column_name = config[i].column_name}}
        /\ \A m, n \in DOMAIN last.returned :
              last.returned[m] = last.returned[n] => m = n
        /\ (last.returned = << >>) <=> ~RepeatedName(config, "column_name")
        /\ Len(config) <= 1 => last.returned = << >>

\* C13 witness: a name carried by three items is listed once, next to a
\* name carried once that is not listed
C13_Witness ==
    /\ last.op = "_get_duplicates"
    /\ config = <<[column_name |-> "a"], [column_name |-> "b"],
                  [column_name |-> "a"], [column_name |-> "a"]>>
    /\ last.returned = <<"a">>

(* Claims on the loading of data                                           *)

\* the backing table of the dataset the import returned
ReturnedTable(store, result) == find_by_id(store, result.returned).table_name

\* the import found the table there: the check said so, or it raised
FoundTable(tbls, name, result) == result.check_raises \/ tbls[name] # "missing"

\* the import should load: a data URI that is not empty, and the table was
\* not found there or force_data is on
ShouldLoad(tbls, name, result) ==
    /\ Truthy(Get(result.given, "data"))
    /\ ~FoundTable(tbls, name, result) \/ result.force_data

\* C14 as stated: in every call of import_datamanage the data is loaded into
\* the backing table, replacing it, iff the config has a non-empty data URI
\* and the table does not exist or force_data is on (a check that raises
\* counts as an existing table).
C14_LoadsIffDataAndMissingOrForced ==
    [][last'.op = "import" =>
        IF ShouldLoad(tables, ReturnedTable(session', last'), last')
        THEN tables' = [tables EXCEPT
                          ![ReturnedTable(session', last')] = last'.given.data.s]
        ELSE tables' = tables]_vars

\* C14 amended: the same for every call that goes past the early return for
\* an existing dataset without overwrite; a call that returns early loads
\* nothing; and no call replaces a table that is there unless force_data.
C14_LoadsIffPastEarlyReturn ==
    [][last'.op = "import" =>
        /\ IF last'.path # "existing"
              /\ ShouldLoad(tables, ReturnedTable(session', last'), last')
           THEN /\ last'.loaded
                /\ tables' = [tables EXCEPT
                                ![ReturnedTable(session', last')] =
                                    last'.given.data.s]
           ELSE /\ ~last'.loaded
                /\ tables' = tables
        /\ ~last'.force_data =>
              \A n \in TableNames : tables[n] # "missing" => tables'[n] = tables[n]]_vars

\* C14 witness: the table check raised, force_data was on, and the data of
\* the URI was loaded into the table of the created dataset
C14_Witness ==
    /\ last.op = "import"
    /\ last.path = "created"
    /\ last.check_raises
    /\ last.force_data
    /\ last.loaded
    /\ tables[ReturnedTable(session, last)] = "uri"

(* importers/v1/utils.py: get_sqla_type                                    *)

\* a native type name is the sequence of its characters

\* sqlalchemy String(length)
String(length) == [type |-> "String", length |-> length]

\* the keys of type_map
TypeMapKeys ==
    {<<"B", "O", "O", "L", "E", "A", "N">>,
     <<"V", "A", "R", "C", "H", "A", "R">>,
     <<"S", "T", "R", "I", "N", "G">>,
     <<"T", "E", "X", "T">>,
     <<"B", "I", "G", "I", "N", "T">>,
     <<"F", "L", "O", "A", "T">>,
     <<"F", "L", "O", "A", "T", "6", "4">>,
     <<"D", "O", "U", "B", "L", "E", " ", "P", "R", "E", "C", "I", "S", "I", "O", "N">>,
     <<"D", "A", "T", "E">>,
     <<"D", "A", "T", "E", "T", "I", "M", "E">>,
     <<"T", "I", "M", "E", "S", "T", "A", "M", "P", " ", "W", "I", "T", "H", "O", "U", "T", " ", "T", "I", "M", "E", " ", "Z", "O", "N", "E">>,
     <<"T", "I", "M", "E", "S", "T", "A", "M", "P", " ", "W", "I", "T", "H", " ", "T", "I", "M", "E", " ", "Z", "O", "N", "E">>}

\* type_map[name]
type_map(name) ==
    CASE name = <<"B", "O", "O", "L", "E", "A", "N">> -> [type |-> "Boolean"]
      [] name = <<"V", "A", "R", "C", "H", "A", "R">> -> String(255)
      [] name = <<"S", "T", "R", "I", "N", "G">> -> String(255)
      [] name = <<"T", "E", "X", "T">> -> [type |-> "Text"]
      [] name = <<"B", "I", "G", "I", "N", "T">> -> [type |-> "BigInteger"]
      [] name = <<"F", "L", "O", "A", "T">> -> [type |-> "Float"]
      [] name = <<"F", "L", "O", "A", "T", "6", "4">> -> [type |-> "Float"]
      [] name = <<"D", "O", "U", "B", "L", "E", " ", "P", "R", "E", "C", "I", "S", "I", "O", "N">> -> [type |-> "Float"]
      [] name = <<"D", "A", "T", "E">> -> [type |-> "Date"]
      [] name = <<"D", "A", "T", "E", "T", "I", "M", "E">> -> [type |-> "DateTime", timezone |-> FALSE]
      [] name = <<"T", "I", "M", "E", "S", "T", "A", "M", "P", " ", "W", "I", "T", "H", "O", "U", "T", " ", "T", "I", "M", "E", " ", "Z", "O", "N", "E">> -> [type |-> "DateTime", timezone |-> FALSE]
      [] name = <<"T", "I", "M", "E", "S", "T", "A", "M", "P", " ", "W", "I", "T", "H", " ", "T", "I", "M", "E", " ", "Z", "O", "N", "E">> -> [type |-> "DateTime", timezone |-> TRUE]

UpperOf ==
    ("a" :> "A" @@ "b" :> "B" @@ "c" :> "C" @@ "d" :> "D" @@ "e" :>
        "E" @@ "f" :> "F" @@ "g" :> "G" @@ "h" :> "H" @@ "i" :> "I" @@
        "j" :> "J" @@ "k" :> "K" @@ "l" :> "L" @@ "m" :> "M" @@ "n" :>
        "N" @@ "o" :> "O" @@ "p" :> "P" @@ "q" :> "Q" @@ "r" :> "R" @@
        "s" :> "S" @@ "t" :> "T" @@ "u" :> "U" @@ "v" :> "V" @@ "w" :>
        "W" @@ "x" :> "X" @@ "y" :> "Y" @@ "z" :> "Z")

\* str.upper() on the characters of the model
Upper(name) ==
    [i \in DOMAIN name |->
        IF name[i] \in DOMAIN UpperOf THEN UpperOf[name[i]] ELSE name[i]]

DigitOf ==
    ("0" :> 0 @@ "1" :> 1 @@ "2" :> 2 @@ "3" :> 3 @@ "4" :> 4 @@ "5" :> 5 @@ "6" :> 6 @@ "7" :> 7 @@ "8" :> 8 @@ "9" :> 9)

\* int(text) of a run of digits
RECURSIVE IntOf(_)
IntOf(digits) ==
    IF digits = << >> THEN 0
    ELSE 10 * IntOf(SubSeq(digits, 1, Len(digits) - 1))
         + DigitOf[digits[Len(digits)]]

\* the length of the longest run of digits of name that starts at position i
RECURSIVE DigitRun(_, _)
DigitRun(name, i) ==
    IF i <= Len(name) /\ name[i] \in DOMAIN DigitOf
    THEN 1 + DigitRun(name, i + 1) ELSE 0

VarcharOpen == <<"V", "A", "R", "C", "H", "A", "R", "(">>

\* VARCHAR.match(native_type) for re.compile(r"VARCHAR\((\d+)\)",
\* re.IGNORECASE): the pattern is looked for at the start of the name, and
\* what follows the closing parenthesis is not looked at
VARCHAR_match(name) ==
    LET run == DigitRun(name, Len(VarcharOpen) + 1)
        close == Len(VarcharOpen) + run + 1
    IN IF /\ Len(name) >= Len(VarcharOpen)
          /\ Upper(SubSeq(name, 1, Len(VarcharOpen))) = VarcharOpen
          /\ run >= 1
          /\ close <= Len(name)
          /\ name[close] = ")"
       THEN [matched |-> TRUE,
             group |-> SubSeq(name, Len(VarcharOpen) + 1, close - 1)]
       ELSE [matched |-> FALSE, group |-> << >>]

\* get_sqla_type(native_type): the type, or the "Unknown type" exception
get_sqla_type(native_type) ==
    IF Upper(native_type) \in TypeMapKeys
    THEN [op |-> "get_sqla_type", raised |-> FALSE,
          returned |-> type_map(Upper(native_type))]
    ELSE IF VARCHAR_match(native_type).matched
    THEN [op |-> "get_sqla_type", raised |-> FALSE,
          returned |-> String(IntOf(VARCHAR_match(native_type).group))]
    ELSE [op |-> "get_sqla_type", raised |-> TRUE, returned |-> None]

\* the names get_sqla_type is given: a word in one of three letter cases,
\* then nothing or something in parentheses, then nothing or a tail
TypeWords ==
    {<<"V", "A", "R", "C", "H", "A", "R">>, <<"T", "E", "X", "T">>, <<"B", "I", "G", "I", "N", "T">>,
     <<"D", "A", "T", "E">>, <<"D", "O", "U", "B", "L", "E", " ", "P", "R", "E", "C", "I", "S", "I", "O", "N">>,
     <<"C", "H", "A", "R">>, <<"I", "N", "T", "E", "G", "E", "R">>, << >>}

Lower(name) ==
    [i \in DOMAIN name |->
        IF \E c \in DOMAIN UpperOf : UpperOf[c] = name[i]
        THEN CHOOSE c \in DOMAIN UpperOf : UpperOf[c] = name[i]
        ELSE name[i]]

Capitalized(name) ==
    [i \in DOMAIN name |-> IF i = 1 THEN name[i] ELSE Lower(name)[i]]

TypeSizes ==
    {<< >>, <<"(", "1", ")">>, <<"(", "1", "0", ")">>,
     <<"(", "2", "5", "5", ")">>, <<"(", ")">>, <<"(", "x", ")">>,
     <<"(", "1">>}

TypeTails == {<< >>, <<"[", "]">>, <<" ">>, <<"x">>}

NativeTypes ==
    {word \o size \o tail :
        word \in UNION {{w, Lower(w), Capitalized(w)} : w \in TypeWords},
        size \in TypeSizes, tail \in TypeTails}

InitTypes ==
    /\ config \in NativeTypes
    /\ session = {}
    /\ committed = {}
    /\ last = NoResult
    /\ users = UserIds
    /\ tables = NoTables

\* get_sqla_type is called on the name
GetSqlaType ==
    /\ last.op = "none"
    /\ last' = get_sqla_type(config)
    /\ UNCHANGED <<session, committed, users, config, tables>>

NextTypes == GetSqlaType

SpecTypes == InitTypes /\ [][NextTypes]_vars

\* the whole name is VARCHAR, in any letter case, followed by a number in
\* parentheses
IsVarcharN(name) ==
    /\ Len(name) > Len(VarcharOpen) + 1
    /\ Upper(SubSeq(name, 1, Len(VarcharOpen))) = VarcharOpen
    /\ name[Len(name)] = ")"
    /\ \A i \in (Len(VarcharOpen) + 1)..(Len(name) - 1) : name[i] \in DOMAIN DigitOf

\* C15: a name whose upper-case form is a key of type_map yields that entry,
\* a name of the form VARCHAR(n) in any letter case yields String(n), and
\* every other name raises the "Unknown type" exception.
C15_TypeOfNameOrUnknown ==
    last.op = "get_sqla_type" =>
        IF Upper(config) \in TypeMapKeys
        THEN ~last.raised /\ last.returned = type_map(Upper(config))
        ELSE IF IsVarcharN(config)
        THEN /\ ~last.raised
             /\ last.returned =
                  String(IntOf(SubSeq(config, Len(VarcharOpen) + 1,
                                      Len(config) - 1)))
        ELSE last.raised

(* Claim on the config argument of the import                              *)

\* C16: import_datamanage works on a copy of its config: after the call the
\* caller's dict has the keys and values it had before, with overwrite on
\* or off.
C16_CallerConfigUnchanged ==
    last.op = "import" => config = last.given

====
